---- MODULE Spec2Model ----
(***************************************************************************)
(* Model of the locale-aware number formatting module (locales/intl.js,    *)
(* src/unnamed/part_001 lines 1-191) of edge-react-gui, of the fiat        *)
(* amount handling of TransactionDetailsScene.js, of signBroadcastAndSave  *)
(* (src/unnamed/part_002), of the sorting mode of WalletList.ui.js and of  *)
(* FioDomainSettingsScene (src/unnamed/part_001 lines 193-396).            *)
(*                                                                         *)
(* JavaScript strings are modelled as sequences of one-character strings,  *)
(* so that slicing, splitting and replacing are computed, not assumed.     *)
(* A missing object property is a field that is not in the record's        *)
(* DOMAIN; a null/undefined argument is the record Null.                   *)
(***************************************************************************)
EXTENDS Integers, Sequences, FiniteSets, TLC

VARIABLES
    locale,     \* the module-level `let locale` (part_001:24)
    lastSet,    \* history: the last non-null descriptor handed to setIntlLocale
    request,    \* the caller's pending call: operation name and arguments
    ret,        \* outcome of the last call: operation, value, threw, warned
    txDetails,  \* the mounted TransactionDetailsComponent: its state and the
                \* metadata of props.edgeTransaction (Null while none is mounted)
    sendRun,    \* a run of signBroadcastAndSave: position, inputs, calls made,
                \* actions dispatched, alerts shown (Null while none runs)
    walletList, \* the mounted WalletList: its state and the animations whose
                \* completion callback is still to run (Null while none is mounted)
    fioScene    \* the mounted FioDomainSettingsScene: state, props and the
                \* awaited calls still in flight (Null while none is mounted)

vars == <<locale, lastSet, request, ret, txDetails, sendRun, walletList, fioScene>>

\* the variables of the formatting module
intlVars == <<locale, lastSet, request, ret>>

\* ------------------------------------------------------------------ bounds
MaxLen == 3          \* longest enumerated input string
MaxToFixed == 2      \* largest options.toFixed enumerated
MaxPrecision == 2    \* largest truncateDecimals precision enumerated

\* --------------------------------------------------------------- constants
NUMBER_GROUP_SIZE == 3

NATIVE_DECIMAL_SEPARATOR == <<".">>

en_US == <<"e", "n", "_", "U", "S">>

fr_FR == <<"f", "r", "_", "F", "R">>

EN_US_LOCALE ==
    [localeIdentifier |-> en_US, decimalSeparator |-> <<".">>, groupingSeparator |-> <<",">>]

\* the object literal {}
EmptyObject == <<>>

\* a null or undefined argument
Null == [absent |-> TRUE]

IsNull(x) == "absent" \in DOMAIN x

Digits == {"0", "1", "2", "3", "4", "5", "6", "7", "8", "9"}

\* ------------------------------------------------- JavaScript string helpers
\* String.prototype.startsWith at a 1-based position
MatchesAt(s, pat, i) ==
    /\ i + Len(pat) - 1 <= Len(s)
    /\ SubSeq(s, i, i + Len(pat) - 1) = pat

\* String.prototype.indexOf, 1-based; 0 when pat does not occur
IndexOf(s, pat) ==
    LET hits == {i \in 1..(Len(s) + 1) : MatchesAt(s, pat, i)}
    IN  IF hits = {} THEN 0 ELSE CHOOSE i \in hits : \A j \in hits : i <= j

Includes(s, pat) == IndexOf(s, pat) # 0

EndsWith(s, pat) == Len(pat) <= Len(s) /\ SubSeq(s, Len(s) - Len(pat) + 1, Len(s)) = pat

StartsWith(s, pat) == MatchesAt(s, pat, 1)

\* s.slice(0, -1)
DropLast(s) == SubSeq(s, 1, Len(s) - 1)

\* s.slice(0, n) for an integer n (a negative n counts from the end)
SliceTo(s, n) ==
    IF n >= 0 THEN SubSeq(s, 1, IF n < Len(s) THEN n ELSE Len(s))
    ELSE SubSeq(s, 1, Len(s) + n)

\* s.substr(start, length) with a 0-based start
Substr(s, start, length) ==
    SubSeq(s, start + 1, IF start + length < Len(s) THEN start + length ELSE Len(s))

\* s.replace(pat, rep) with a string pattern: the first occurrence only
ReplaceFirst(s, pat, rep) ==
    LET i == IndexOf(s, pat)
    IN  IF i = 0 THEN s
        ELSE SubSeq(s, 1, i - 1) \o rep \o SubSeq(s, i + Len(pat), Len(s))

\* mutant: the regular expression without its 'g' flag removes one occurrence
RemoveAll_FirstOnly(s, pat) == ReplaceFirst(s, pat, <<>>)

\* s.replace(new RegExp('\\' + pat, 'g'), ''): every occurrence of the escaped literal
RECURSIVE RemoveAll(_, _)
RemoveAll(s, pat) ==
    LET i == IndexOf(s, pat)
    IN  IF i = 0 \/ pat = <<>> THEN s
        ELSE SubSeq(s, 1, i - 1) \o RemoveAll(SubSeq(s, i + Len(pat), Len(s)), pat)

\* s.split(pat) for a non-empty pat: the sequence of the parts
RECURSIVE Split(_, _)
Split(s, pat) ==
    LET i == IndexOf(s, pat)
    IN  IF i = 0 \/ pat = <<>> THEN <<s>>
        ELSE <<SubSeq(s, 1, i - 1)>> \o Split(SubSeq(s, i + Len(pat), Len(s)), pat)

\* s.replace(/^0+/, '')
RECURSIVE StripLeadingZeros(_)
StripLeadingZeros(s) ==
    IF s # <<>> /\ Head(s) = "0" THEN StripLeadingZeros(Tail(s)) ELSE s

\* s.replace(/0+$/, '')
RECURSIVE StripTrailingZeros(_)
StripTrailingZeros(s) ==
    IF s # <<>> /\ s[Len(s)] = "0" THEN StripTrailingZeros(DropLast(s)) ELSE s

\* a number's text without its leading '-', and that '-' (or nothing)
Unsigned(s) == IF s # <<>> /\ Head(s) = "-" THEN Tail(s) ELSE s

Sign(s) == IF s # <<>> /\ Head(s) = "-" THEN <<"-">> ELSE <<>>

RECURSIVE Zeros(_)
Zeros(n) == IF n <= 0 THEN <<>> ELSE <<"0">> \o Zeros(n - 1)

\* ------------------------------------------------ fixed-point decimal helper
\* biggystring's trimEnd, step by step: a leading '.' becomes "0."
LeadingDotToZeroDot(s) == IF StartsWith(s, <<".">>) THEN <<"0">> \o s ELSE s

\* a trailing '.' dropped
DropTrailingDot(s) == IF EndsWith(s, <<".">>) THEN DropLast(s) ELSE s

\* the trailing zeros and a trailing '.' of a fraction dropped
TrimFraction(s) ==
    IF Includes(s, <<".">>) THEN DropTrailingDot(StripTrailingZeros(s)) ELSE s

EmptyToZero(s) == IF s = <<>> THEN <<"0">> ELSE s

\* biggystring's trimEnd: leading zeros dropped, a leading '.' becomes "0.",
\* trailing zeros and a trailing '.' of a fraction dropped, "" becomes "0"
trimEnd(val) == EmptyToZero(TrimFraction(LeadingDotToZeroDot(StripLeadingZeros(val))))

\* x with its '.' at the 1-based position decimalPos (0: none): the fraction
\* padded with zeros up to minPrecision digits and cut to maxPrecision digits
PadOrCut(x, decimalPos, minPrecision, maxPrecision) ==
    IF decimalPos = 0 THEN x \o <<".">> \o Zeros(minPrecision)
    ELSE IF Len(x) - decimalPos > maxPrecision
         THEN SubSeq(x, 1, decimalPos + maxPrecision)
    ELSE IF Len(x) - decimalPos < minPrecision
         THEN x \o Zeros(minPrecision - (Len(x) - decimalPos))
    ELSE x

ToFixedUnsigned(x, minPrecision, maxPrecision) ==
    DropTrailingDot(PadOrCut(x, IndexOf(x, <<".">>), minPrecision, maxPrecision))

\* biggystring's toFixed(x1, minPrecision, maxPrecision): the sign is set aside,
\* the number trimmed, its fraction padded or cut, the sign put back
toFixed(x1, minPrecision, maxPrecision) ==
    Sign(x1) \o ToFixedUnsigned(trimEnd(Unsigned(x1)), minPrecision, maxPrecision)

\* ------------------------------------------------------------ intl functions
\* JavaScript truthiness of options.toFixed / options.noGrouping
HasOptions(options) == ~IsNull(options)

ToFixedTruthy(options) ==
    HasOptions(options) /\ "toFixed" \in DOMAIN options /\ options.toFixed # 0

NoGroupingTruthy(options) ==
    HasOptions(options) /\ "noGrouping" \in DOMAIN options /\ options.noGrouping

\* the for loop of formatNumber: appends separator + next group while i < len
RECURSIVE GroupLoop(_, _, _, _)
GroupLoop(integers, i, intPart, loc) ==
    IF i < Len(integers)
    THEN GroupLoop(integers, i + NUMBER_GROUP_SIZE,
                   intPart \o loc.groupingSeparator \o Substr(integers, i, NUMBER_GROUP_SIZE),
                   loc)
    ELSE intPart

\* the string handed to split: the input, or toFixed of it when options.toFixed is truthy
Stringify(number, options) ==
    IF ToFixedTruthy(options) THEN toFixed(number, options.toFixed, options.toFixed) ELSE number

\* i = len % NUMBER_GROUP_SIZE || NUMBER_GROUP_SIZE
FirstGroupSize(len) ==
    IF len % NUMBER_GROUP_SIZE # 0 THEN len % NUMBER_GROUP_SIZE ELSE NUMBER_GROUP_SIZE

\* intPart: the grouped integers, or the integers as they are with noGrouping
IntPart(integers, options, loc) ==
    IF ~NoGroupingTruthy(options)
    THEN GroupLoop(integers, FirstGroupSize(Len(integers)),
                   Substr(integers, 0, FirstGroupSize(Len(integers))), loc)
    ELSE integers

\* mutant: the decimal separator is appended whenever the split found a '.'
JoinParts_KeepsEmptyDecimals(parts, options, loc) ==
    IF Len(parts) >= 2
    THEN IntPart(parts[1], options, loc) \o loc.decimalSeparator \o parts[2]
    ELSE IntPart(parts[1], options, loc)

\* parts is stringify.split('.'): intPart, and the decimals when there are any
JoinParts(parts, options, loc) ==
    IF Len(parts) >= 2 /\ parts[2] # <<>>
    THEN IntPart(parts[1], options, loc) \o loc.decimalSeparator \o parts[2]
    ELSE IntPart(parts[1], options, loc)

formatNumber(number, options, loc) ==
    JoinParts(Split(Stringify(number, options), NATIVE_DECIMAL_SEPARATOR), options, loc)

\* mutant: a property the target already has is not overwritten
Assign_TargetWins(target, source) ==
    IF IsNull(source) THEN target
    ELSE [k \in (DOMAIN target) \cup (DOMAIN source) |->
            IF k \in DOMAIN target THEN target[k] ELSE source[k]]

\* Object.assign(_options, options): the caller's own properties override the inferred ones
Assign(target, source) ==
    IF IsNull(source) THEN target
    ELSE [k \in (DOMAIN target) \cup (DOMAIN source) |->
            IF k \in DOMAIN source THEN source[k] ELSE target[k]]

\* mutant: Object.assign with its arguments swapped writes the inferred toFixed
\* into the caller's options object
formatNumberInput_AssignsIntoCaller(input, options, loc) ==
    IF EndsWith(input, <<".">>) \/ EndsWith(input, <<",">>)
    THEN [value |-> formatNumber(DropLast(input), Null, loc) \o loc.decimalSeparator,
          options |-> options]
    ELSE LET parts == Split(input, NATIVE_DECIMAL_SEPARATOR)
             inferred == IF Includes(input, NATIVE_DECIMAL_SEPARATOR) /\ parts[2] # <<>>
                         THEN [toFixed |-> Len(parts[2])]
                         ELSE EmptyObject
             _options == IF IsNull(options) THEN inferred ELSE Assign(options, inferred)
         IN  [value |-> formatNumber(input, _options, loc),
              options |-> IF IsNull(options) THEN options ELSE _options]

\* mutant: the separator the user typed is put back instead of the locale's
formatNumberInput_KeepsTypedSeparator(input, options, loc) ==
    IF EndsWith(input, <<".">>) \/ EndsWith(input, <<",">>)
    THEN [value |-> formatNumber(DropLast(input), Null, loc) \o <<input[Len(input)]>>,
          options |-> options]
    ELSE LET parts == Split(input, NATIVE_DECIMAL_SEPARATOR)
             inferred == IF Includes(input, NATIVE_DECIMAL_SEPARATOR) /\ parts[2] # <<>>
                         THEN [toFixed |-> Len(parts[2])]
                         ELSE EmptyObject
             _options == Assign(inferred, options)
         IN  [value |-> formatNumber(input, _options, loc), options |-> options]

\* returns the result and the caller's options object as it is after the call
formatNumberInput(input, options, loc) ==
    IF EndsWith(input, <<".">>) \/ EndsWith(input, <<",">>)
    THEN [value |-> formatNumber(DropLast(input), Null, loc) \o loc.decimalSeparator,
          options |-> options]
    ELSE LET parts == Split(input, NATIVE_DECIMAL_SEPARATOR)
             inferred == IF Includes(input, NATIVE_DECIMAL_SEPARATOR) /\ parts[2] # <<>>
                         THEN [toFixed |-> Len(parts[2])]
                         ELSE EmptyObject
             _options == Assign(inferred, options)
         IN  [value |-> formatNumber(input, _options, loc), options |-> options]

\* the trailing '.' or ',' of a value replaced by the locale's decimal separator
NormalizeTrailing(value, loc) ==
    IF EndsWith(value, <<".">>) \/ EndsWith(value, <<",">>)
    THEN DropLast(value) \o loc.decimalSeparator
    ELSE value

\* mutant: the locale's decimal separator is left in place
Standardize_KeepsLocaleDecimal(value, loc) == RemoveAll(value, loc.groupingSeparator)

Standardize(value, loc) ==
    ReplaceFirst(RemoveAll(value, loc.groupingSeparator), loc.decimalSeparator, <<".">>)

formatToNativeNumber(value, loc) == Standardize(NormalizeTrailing(value, loc), loc)

\* mutant: the leading zeros are removed and no '0' is put back
prettifyNumber_NoZeroPrefix(input, loc) == StripLeadingZeros(input)

prettifyNumber(input, loc) ==
    LET out == StripLeadingZeros(input)
    IN  IF StartsWith(out, loc.decimalSeparator) THEN <<"0">> \o out ELSE out

\* mutant: the allowBlank argument is not looked at, an empty input is always '0'
truncateDecimals_IgnoresAllowBlank(req, loc) ==
    LET input == IF req.input = <<>> THEN <<"0">> ELSE req.input
        parts == Split(input, loc.decimalSeparator)
        decimals == IF "precision" \in DOMAIN req THEN SliceTo(parts[2], req.precision) ELSE parts[2]
    IN  IF ~Includes(input, loc.decimalSeparator) THEN input
        ELSE parts[1] \o loc.decimalSeparator \o decimals

\* req holds input and, when the caller passed them, precision and allowBlank
truncateDecimals(req, loc) ==
    LET allowBlank == IF "allowBlank" \in DOMAIN req THEN req.allowBlank ELSE FALSE
        input == IF req.input = <<>> THEN (IF allowBlank THEN <<>> ELSE <<"0">>) ELSE req.input
        parts == Split(input, loc.decimalSeparator)
        decimals == IF "precision" \in DOMAIN req THEN SliceTo(parts[2], req.precision) ELSE parts[2]
    IN  IF ~Includes(input, loc.decimalSeparator) THEN input
        ELSE parts[1] \o loc.decimalSeparator \o decimals

\* ------------------------------------------------------- calls that can raise
\* toFixed of biggystring on text that is no decimal number: the documentation
\* has every formatting function return a value for malformed text
toFixedThrows(x1) == FALSE

\* formatNumber raises when its toFixed call does
formatNumberThrows(number, options) == ToFixedTruthy(options) /\ toFixedThrows(number)

formatNumberInputThrows(input, options) ==
    IF EndsWith(input, <<".">>) \/ EndsWith(input, <<",">>)
    THEN formatNumberThrows(DropLast(input), Null)
    ELSE LET parts == Split(input, NATIVE_DECIMAL_SEPARATOR)
             inferred == IF Includes(input, NATIVE_DECIMAL_SEPARATOR) /\ parts[2] # <<>>
                         THEN [toFixed |-> Len(parts[2])]
                         ELSE EmptyObject
         IN  formatNumberThrows(input, Assign(inferred, options))

\* new RegExp('\\' + groupingSeparator, 'g') is a SyntaxError when nothing
\* follows the backslash
RegExpThrows(loc) == loc.groupingSeparator = <<>>

\* mutant: decimals.slice is reached without the includes test before it
truncateDecimalsThrows_NoIncludesGuard(req, loc) ==
    Len(Split(req.input, loc.decimalSeparator)) < 2

\* decimals.slice is a TypeError when the split gave no second part
truncateDecimalsThrows(req, loc) ==
    LET allowBlank == IF "allowBlank" \in DOMAIN req THEN req.allowBlank ELSE FALSE
        input == IF req.input = <<>> THEN (IF allowBlank THEN <<>> ELSE <<"0">>) ELSE req.input
    IN  IF ~Includes(input, loc.decimalSeparator) THEN FALSE
        ELSE Len(Split(input, loc.decimalSeparator)) < 2

\* ------------------------------------------------- JavaScript number parsing
RECURSIVE TrimLeft(_)
TrimLeft(s) == IF s # <<>> /\ Head(s) = " " THEN TrimLeft(Tail(s)) ELSE s

RECURSIVE TrimRight(_)
TrimRight(s) == IF s # <<>> /\ s[Len(s)] = " " THEN TrimRight(DropLast(s)) ELSE s

AllDigits(s) == \A k \in 1..Len(s) : s[k] \in Digits

\* StrUnsignedDecimalLiteral without an exponent part: digits with at most one
\* '.', and at least one digit
IsUnsignedDecimal(s) ==
    LET parts == Split(s, <<".">>)
    IN  /\ Len(parts) <= 2
        /\ \A k \in 1..Len(parts) : AllDigits(parts[k])
        /\ \E k \in 1..Len(s) : s[k] \in Digits

\* The class of the value of the unary plus +s (ToNumber of a string): white
\* space is trimmed, the empty string is 0, one sign is allowed, "Infinity" is
\* infinite, everything that is no numeric literal is NaN.  Exponent and
\* 0x/0o/0b literals need letters the input alphabet does not hold.
NumberClass(s) ==
    LET t == TrimRight(TrimLeft(s))
        u == IF t # <<>> /\ Head(t) \in {"-", "+"} THEN Tail(t) ELSE t
    IN  IF t = <<>> THEN "finite"
        ELSE IF u = <<"I", "n", "f", "i", "n", "i", "t", "y">> THEN "infinite"
        ELSE IF IsUnsignedDecimal(u) THEN "finite"
        ELSE "NaN"

\* the global isNaN
isNaN(s) == NumberClass(s) = "NaN"

\* mutant: only the first grouping separator is removed before the number test
isValidInput_FirstGroupOnly(value, loc) ==
    IF value = loc.decimalSeparator THEN TRUE
    ELSE ~isNaN(ReplaceFirst(ReplaceFirst(NormalizeTrailing(value, loc),
                                          loc.groupingSeparator, <<>>),
                             loc.decimalSeparator, <<".">>))

\* mutant: a trailing '.' or ',' is not turned into the locale's decimal separator
isValidInput_NoTrailingNormalize(value, loc) ==
    IF value = loc.decimalSeparator THEN TRUE
    ELSE ~isNaN(Standardize(value, loc))

isValidInput(value, loc) ==
    IF value = loc.decimalSeparator THEN TRUE
    ELSE ~isNaN(Standardize(NormalizeTrailing(value, loc), loc))

\* ------------------------------------------------------------ date functions
\* locale.localeIdentifier.replace('_', '-')
LocaleTag(loc) == ReplaceFirst(loc.localeIdentifier, <<"_">>, <<"-">>)

\* new Date(x) is an Invalid Date for text that is no date; format() of it throws
ValidDate(d) == d # "not a date"

formatExpDate(req, loc) ==
    LET monthShort == IF "monthShort" \in DOMAIN req THEN req.monthShort ELSE FALSE
    IN  [threw |-> ~ValidDate(req.expiration),
         value |-> [tag |-> LocaleTag(loc),
                    dateStyle |-> IF monthShort THEN "medium" ELSE "long",
                    date |-> req.expiration]]

formatTime(date, loc) ==
    [threw |-> ~ValidDate(date),
     value |-> [tag |-> LocaleTag(loc), hour |-> "numeric", minute |-> "numeric", date |-> date]]

\* ------------------------------------------------------------------ the setter
\* JavaScript falsiness of a descriptor property: missing, or the empty string
Missing(l, field) ==
    \/ field \notin DOMAIN l
    \/ l[field] = <<>>

\* mutant: a null descriptor falls back to the default instead of throwing
setIntlLocale_NullFallsBack(l, cur) ==
    IF IsNull(l) THEN [locale |-> EN_US_LOCALE, threw |-> FALSE, warned |-> TRUE]
    ELSE IF \/ Missing(l, "decimalSeparator")
            \/ Missing(l, "groupingSeparator")
            \/ Missing(l, "localeIdentifier")
    THEN [locale |-> EN_US_LOCALE, threw |-> FALSE, warned |-> TRUE]
    ELSE [locale |-> l, threw |-> FALSE, warned |-> FALSE]

\* mutant: an incomplete descriptor warns but the default is never assigned
setIntlLocale_IncompleteKeeps(l, cur) ==
    IF IsNull(l) THEN [locale |-> cur, threw |-> TRUE, warned |-> FALSE]
    ELSE IF \/ Missing(l, "decimalSeparator")
            \/ Missing(l, "groupingSeparator")
            \/ Missing(l, "localeIdentifier")
    THEN [locale |-> cur, threw |-> FALSE, warned |-> TRUE]
    ELSE [locale |-> l, threw |-> FALSE, warned |-> FALSE]

\* mutant: the identifier is not checked, a descriptor without one is stored
setIntlLocale_NoIdentifierCheck(l, cur) ==
    IF IsNull(l) THEN [locale |-> cur, threw |-> TRUE, warned |-> FALSE]
    ELSE IF \/ Missing(l, "decimalSeparator")
            \/ Missing(l, "groupingSeparator")
    THEN [locale |-> EN_US_LOCALE, threw |-> FALSE, warned |-> TRUE]
    ELSE [locale |-> l, threw |-> FALSE, warned |-> FALSE]

\* setIntlLocale(l) with cur the current locale: the new locale and what the call did
setIntlLocale(l, cur) ==
    IF IsNull(l) THEN [locale |-> cur, threw |-> TRUE, warned |-> FALSE]
    ELSE IF \/ Missing(l, "decimalSeparator")
            \/ Missing(l, "groupingSeparator")
            \/ Missing(l, "localeIdentifier")
    THEN [locale |-> EN_US_LOCALE, threw |-> FALSE, warned |-> TRUE]
    ELSE [locale |-> l, threw |-> FALSE, warned |-> FALSE]

\* ------------------------------------------------------------- input domains
Chars == {"0", "1", ".", ","}

\* every string over Chars of at most n characters
StringsUpTo(n) == UNION {[1..k -> Chars] : k \in 0..n}

\* the inputs the documentation and the callers name, and text outside Chars
Examples ==
    { <<"1", "2", "3", "4", "5", "6", "7">>,
      <<"1", "2", "3", "4", ".", "5">>,
      <<"1", "2", "3", "4", ".">>,
      <<"1", ",", "2", "3", "4", ".", "5", "6">>,
      <<"1", ".", "2", "3", "4", ".", "5", "6">>,
      <<"1", ".", "2", "3", "4", ",", "5">>,
      <<"1", " ", "2", "3", "4", ",", "5">>,
      <<"1", "2", ".", "3", "4", "5", "6", "7">>,
      <<"1", "2", ".", "9", "9", "9">>,
      <<"-", "1", "2", "3", "4", "5", "6">>,
      <<"-", "1", "2", "3">>,
      <<"-", "1">>,
      <<"-", "1", ".">>,
      <<"-", ".", "1">>,
      <<"-", "0">>,
      <<"-">>,
      <<"-", "-", "1">>,
      <<"1", "-", "1">>,
      <<"-", "1", "2", "3", "4", ".", "5", "0">>,
      <<"0", "0", "7", ".", "5", "0">>,
      <<"0", "0", ".", "5">>,
      <<"0", "0", "7">>,
      <<"1", "2", ",">>,
      <<"1", ".", "2", ".", "3">>,
      <<"I", "n", "f", "i", "n", "i", "t", "y">>,
      <<"-", "I", "n", "f", "i", "n", "i", "t", "y">>,
      <<"a", "b", "c">>,
      <<" ", "1", "2", " ">> }

Inputs == StringsUpTo(MaxLen) \cup Examples

\* options objects: undefined, {}, and every combination of the two properties
Options ==
    {Null, EmptyObject}
    \cup {[toFixed |-> n] : n \in 0..MaxToFixed}
    \cup {[noGrouping |-> b] : b \in BOOLEAN}
    \cup {[toFixed |-> n, noGrouping |-> b] : n \in 0..MaxToFixed, b \in BOOLEAN}

Precisions == (-1)..MaxPrecision

Dates == {"2021-11-05", "not a date"}

Requests ==
    {[op |-> "formatNumber", number |-> s, options |-> o] : s \in Inputs, o \in Options}
    \cup {[op |-> "formatNumberInput", input |-> s, options |-> o] : s \in Inputs, o \in Options}
    \cup {[op |-> "isValidInput", value |-> s] : s \in Inputs}
    \cup {[op |-> "prettifyNumber", input |-> s] : s \in Inputs}
    \cup {[op |-> "truncateDecimals", input |-> s] : s \in Inputs}
    \cup {[op |-> "truncateDecimals", input |-> s, precision |-> p] :
            s \in Inputs, p \in Precisions}
    \cup {[op |-> "truncateDecimals", input |-> s, precision |-> p, allowBlank |-> b] :
            s \in Inputs, p \in Precisions, b \in BOOLEAN}
    \cup {[op |-> "formatToNativeNumber", value |-> s] : s \in Inputs}
    \cup {[op |-> "formatExpDate", expiration |-> d] : d \in Dates}
    \cup {[op |-> "formatExpDate", expiration |-> d, monthShort |-> b] :
            d \in Dates, b \in BOOLEAN}
    \cup {[op |-> "formatTime", date |-> d] : d \in Dates}

\* <<decimalSeparator, groupingSeparator>>
SeparatorPairs ==
    { <<<<",">>, <<".">>>>,
      <<<<",">>, <<" ">>>>,
      <<<<".">>, <<" ">>>>,
      <<<<".">>, <<".">>>>,
      <<<<",">>, <<"-">>>> }

\* descriptors with all three properties set: the setter takes them as they are,
\* equal separators and a '-' separator included
CompleteDescriptors ==
    {[localeIdentifier |-> fr_FR, decimalSeparator |-> sep[1], groupingSeparator |-> sep[2]] :
        sep \in SeparatorPairs}

\* descriptors with a property missing or empty
IncompleteDescriptors ==
    { [localeIdentifier |-> fr_FR],
      [decimalSeparator |-> <<",">>, groupingSeparator |-> <<".">>],
      [localeIdentifier |-> <<>>, decimalSeparator |-> <<",">>, groupingSeparator |-> <<".">>],
      [localeIdentifier |-> fr_FR, decimalSeparator |-> <<>>, groupingSeparator |-> <<".">>] }

SetLocaleArgs == {Null} \cup CompleteDescriptors \cup IncompleteDescriptors

\* what react-native-localize reports at boot
HostLocales == {<<>>, <<[languageTag |-> fr_FR]>>}

HostNumberFormats ==
    { [decimalSeparator |-> <<".">>, groupingSeparator |-> <<",">>],
      [decimalSeparator |-> <<",">>, groupingSeparator |-> <<>>] }

\* { localeIdentifier: firstLocale.languageTag, ...numberFormat }
BootDescriptor(locales, numberFormat) ==
    LET firstLocale == IF locales = <<>> THEN [languageTag |-> en_US] ELSE locales[1]
    IN  [localeIdentifier |-> firstLocale.languageTag,
         decimalSeparator |-> numberFormat.decimalSeparator,
         groupingSeparator |-> numberFormat.groupingSeparator]

\* ------------------------------------------------------------- state machine
Init ==
    /\ request \in Requests
    /\ txDetails = Null
    /\ sendRun = Null
    /\ walletList = Null
    /\ fioScene = Null
    /\ \E locales \in HostLocales, numberFormat \in HostNumberFormats :
          LET l == BootDescriptor(locales, numberFormat)
              r == setIntlLocale(l, EN_US_LOCALE)
          IN  /\ locale = r.locale
              /\ lastSet = l
              /\ ret = [op |-> "boot", arg |-> l, threw |-> r.threw, warned |-> r.warned]

SetIntlLocale ==
    \E l \in SetLocaleArgs :
        LET r == setIntlLocale(l, locale)
        IN  /\ locale' = r.locale
            /\ lastSet' = IF IsNull(l) THEN lastSet ELSE l
            /\ ret' = [op |-> "setIntlLocale", arg |-> l, threw |-> r.threw, warned |-> r.warned]
            /\ UNCHANGED <<request, txDetails, sendRun, walletList, fioScene>>

FormatNumber ==
    /\ request.op = "formatNumber"
    /\ ret' = [op |-> "formatNumber",
               value |-> formatNumber(request.number, request.options, locale),
               threw |-> formatNumberThrows(request.number, request.options),
               warned |-> FALSE]
    /\ UNCHANGED <<locale, lastSet, request, txDetails, sendRun, walletList, fioScene>>

FormatNumberInput ==
    /\ request.op = "formatNumberInput"
    /\ LET r == formatNumberInput(request.input, request.options, locale)
       IN  /\ ret' = [op |-> "formatNumberInput", value |-> r.value,
                      threw |-> formatNumberInputThrows(request.input, request.options),
                      warned |-> FALSE]
           /\ request' = [request EXCEPT !.options = r.options]
    /\ UNCHANGED <<locale, lastSet, txDetails, sendRun, walletList, fioScene>>

IsValidInput ==
    /\ request.op = "isValidInput"
    /\ ret' = [op |-> "isValidInput", value |-> isValidInput(request.value, locale),
               threw |-> RegExpThrows(locale), warned |-> FALSE]
    /\ UNCHANGED <<locale, lastSet, request, txDetails, sendRun, walletList, fioScene>>

PrettifyNumber ==
    /\ request.op = "prettifyNumber"
    /\ ret' = [op |-> "prettifyNumber", value |-> prettifyNumber(request.input, locale),
               threw |-> FALSE, warned |-> FALSE]
    /\ UNCHANGED <<locale, lastSet, request, txDetails, sendRun, walletList, fioScene>>

TruncateDecimals ==
    /\ request.op = "truncateDecimals"
    /\ ret' = [op |-> "truncateDecimals", value |-> truncateDecimals(request, locale),
               threw |-> truncateDecimalsThrows(request, locale), warned |-> FALSE]
    /\ UNCHANGED <<locale, lastSet, request, txDetails, sendRun, walletList, fioScene>>

FormatToNativeNumber ==
    /\ request.op = "formatToNativeNumber"
    /\ ret' = [op |-> "formatToNativeNumber",
               value |-> formatToNativeNumber(request.value, locale),
               threw |-> RegExpThrows(locale), warned |-> FALSE]
    /\ UNCHANGED <<locale, lastSet, request, txDetails, sendRun, walletList, fioScene>>

FormatExpDate ==
    /\ request.op = "formatExpDate"
    /\ LET r == formatExpDate(request, locale)
       IN  ret' = [op |-> "formatExpDate", value |-> r.value, threw |-> r.threw, warned |-> FALSE]
    /\ UNCHANGED <<locale, lastSet, request, txDetails, sendRun, walletList, fioScene>>

FormatTime ==
    /\ request.op = "formatTime"
    /\ LET r == formatTime(request.date, locale)
       IN  ret' = [op |-> "formatTime", value |-> r.value, threw |-> r.threw, warned |-> FALSE]
    /\ UNCHANGED <<locale, lastSet, request, txDetails, sendRun, walletList, fioScene>>

Next ==
    \/ SetIntlLocale
    \/ FormatNumber
    \/ FormatNumberInput
    \/ IsValidInput
    \/ PrettifyNumber
    \/ TruncateDecimals
    \/ FormatToNativeNumber
    \/ FormatExpDate
    \/ FormatTime

Spec == Init /\ [][Next]_vars

\* ------------------------------------------------- TransactionDetailsScene.js
MaxFiatLen == 2      \* longest enumerated fiat text

\* a JavaScript number is modelled by its shortest decimal text, NaN by "NaN"
NaN == <<"N", "a", "N">>

Zero == <<"0">>

\* the number a decimal literal denotes: leading zeros, trailing fraction zeros
\* and an empty fraction dropped, and -0 taken for 0
NumberValue(literal) ==
    LET magnitude == EmptyToZero(TrimFraction(LeadingDotToZeroDot(
                         StripLeadingZeros(Unsigned(literal)))))
    IN  IF magnitude = Zero THEN Zero ELSE Sign(literal) \o magnitude

\* the lengths of the prefixes of s that are decimal literals
LiteralPrefixes(s) ==
    {k \in 1..Len(s) : IsUnsignedDecimal(Unsigned(SubSeq(s, 1, k)))}

\* Number.parseFloat: leading blanks skipped, the longest prefix that is a
\* decimal literal converted, NaN when there is none
parseFloat(s) ==
    LET t == TrimLeft(s)
        ks == LiteralPrefixes(t)
    IN  IF ks = {} THEN NaN
        ELSE NumberValue(SubSeq(t, 1, CHOOSE k \in ks : \A j \in ks : j <= k))

\* Number.prototype.toFixed(digits) of a number with at most `digits` decimals
NumberToFixed(x, digits) == toFixed(x, digits, digits)

\* bns.abs
abs(x) == Unsigned(x)

initalizeAmountBalance(metadata, loc) ==
    IF ~IsNull(metadata) /\ metadata.amountFiat \notin {Zero, NaN}
    THEN formatNumber(toFixed(abs(NumberToFixed(metadata.amountFiat, 2)), 2, 2),
                      [noGrouping |-> TRUE], loc)
    ELSE formatNumber(<<"0", ".", "0", "0">>, Null, loc)

\* this.state after the constructor, for a received transaction without a category
Constructor(metadata, loc) ==
    [amountFiat |-> initalizeAmountBalance(metadata, loc),
     payeeName |-> IF ~IsNull(metadata) THEN metadata.name ELSE "",
     notes |-> IF ~IsNull(metadata) THEN metadata.notes ELSE "",
     category |-> "income",
     subCategory |-> "",
     bizId |-> 0,
     miscJson |-> IF ~IsNull(metadata) THEN metadata.miscJson ELSE ""]

\* the metadata onSaveTxDetails writes into edgeTransaction and dispatches
onSaveTxDetails(state, metadata) ==
    LET fullCategory == IF state.category # ""
                        THEN [capitalize |-> state.category, subCategory |-> state.subCategory]
                        ELSE Null
        decimalAmountFiat == parseFloat(ReplaceFirst(state.amountFiat, <<",">>, <<".">>))
        finalAmountFiat ==
            IF decimalAmountFiat = NaN
            THEN (IF ~IsNull(metadata) THEN metadata.amountFiat ELSE Zero)
            ELSE (IF state.amountFiat = <<>> THEN Zero ELSE decimalAmountFiat)
    IN  [name |-> state.payeeName, category |-> fullCategory, notes |-> state.notes,
         amountFiat |-> finalAmountFiat, bizId |-> state.bizId, miscJson |-> state.miscJson]

\* what the user can type into the fiat input
FiatChars == {"1", ",", ".", "a"}

FiatExamples ==
    { <<"0">>,
      <<"0", ".", "0", "0">>,
      <<"1", "2", ",", "5">>,
      <<"1", "2", "a", "b", "c">> }

FiatTexts == UNION {[1..k -> FiatChars] : k \in 0..MaxFiatLen} \cup FiatExamples

\* props.edgeTransaction.metadata when the scene opens
TxMetadatas ==
    { Null,
      [name |-> "", notes |-> "", miscJson |-> "", amountFiat |-> Zero],
      [name |-> "Alice", notes |-> "lunch", miscJson |-> "",
       amountFiat |-> <<"1", "2", ".", "5">>],
      [name |-> "Alice", notes |-> "lunch", miscJson |-> "",
       amountFiat |-> <<"-", "3">>] }

TxLocales ==
    { EN_US_LOCALE,
      [localeIdentifier |-> fr_FR, decimalSeparator |-> <<",">>, groupingSeparator |-> <<".">>] }

TxInit ==
    /\ locale \in TxLocales
    /\ lastSet = locale
    /\ request = Null
    /\ ret = [op |-> "constructor", threw |-> FALSE, warned |-> FALSE]
    /\ sendRun = Null
    /\ walletList = Null
    /\ fioScene = Null
    /\ \E metadata \in TxMetadatas :
          txDetails = [state |-> Constructor(metadata, locale), metadata |-> metadata]

OnChangeFiat ==
    \E amountFiat \in FiatTexts :
        /\ txDetails' = [txDetails EXCEPT !.state.amountFiat = amountFiat]
        /\ ret' = [op |-> "onChangeFiat", threw |-> FALSE, warned |-> FALSE]
        /\ UNCHANGED <<locale, lastSet, request, sendRun, walletList, fioScene>>

\* ret keeps the metadata found before the save and the metadata dispatched
\* with setTransactionDetails
OnSaveTxDetails ==
    LET metadata == onSaveTxDetails(txDetails.state, txDetails.metadata)
    IN  /\ txDetails' = [txDetails EXCEPT !.metadata = metadata]
        /\ ret' = [op |-> "onSaveTxDetails", previous |-> txDetails.metadata,
                   dispatched |-> metadata, threw |-> FALSE, warned |-> FALSE]
        /\ UNCHANGED <<locale, lastSet, request, sendRun, walletList, fioScene>>

TxNext ==
    \/ OnChangeFiat
    \/ OnSaveTxDetails

TxSpec == TxInit /\ [][TxNext]_vars

\* --------------------------------------- signBroadcastAndSave (part_002:186-368)
\* what a run reads from the store and from guiMakeSpendInfo; a wallet call's
\* outcome is chosen when the call is made
SendConfigs ==
    [beforeTransaction : {"absent", "resolves", "rejects"},
     spendInfo : BOOLEAN,
     spendTargets : BOOLEAN,
     feeAboveThreshold : BOOLEAN,
     authRequired : {"pin", "none"},
     dismissAlert : BOOLEAN,
     fioRecord : {"none", "pendingRequest", "publicAddress"},
     onDone : {"absent", "returns", "throws"}]

Call(run, name, arg, result) ==
    [run EXCEPT !.calls = Append(@, [call |-> name, arg |-> arg, result |-> result])]

Dispatch(run, action) == [run EXCEPT !.dispatched = Append(@, action)]

Goto(run, pc) == [run EXCEPT !.pc = pc]

\* the run is over: the thunk's promise resolved ("returned") or rejected
Finish(run, outcome) == [run EXCEPT !.pc = "done", !.outcome = outcome]

updateSpendPending(pending) ==
    [type |-> "UI/SEND_CONFIMATION/UPDATE_SPEND_PENDING", pending |-> pending]

updateTransaction(transaction, guiMakeSpendInfo, forceUpdateGui, error) ==
    [type |-> "UI/SEND_CONFIMATION/UPDATE_TRANSACTION", transaction |-> transaction,
     guiMakeSpendInfo |-> guiMakeSpendInfo, forceUpdateGui |-> forceUpdateGui,
     error |-> error]

\* mutant: the catch block shows the alert and leaves the pending flag alone
Catch_KeepsPending(run) ==
    Finish([run EXCEPT !.alerts = Append(@, "transaction_failure")], "returned")

\* the catch block: spend-pending off, then the failure alert
Catch(run) ==
    Finish([Dispatch(run, updateSpendPending(FALSE))
                EXCEPT !.alerts = Append(@, "transaction_failure")],
           "returned")

\* dispatch(updateSpendPending(true)) and the entry of the try block
BeginSpend(run) ==
    Goto(Dispatch(run, updateSpendPending(TRUE)),
         IF run.cfg.authRequired = "pin" THEN "checkPin" ELSE "signTx")

\* after beforeTransaction: the spendInfo test and the fee threshold test
AfterBeforeTransaction(run) ==
    IF ~run.cfg.spendInfo THEN Finish(run, "rejected")
    ELSE IF run.cfg.feeAboveThreshold THEN Goto(run, "feeAlert")
    ELSE BeginSpend(run)

\* mutant: the answer to the fee alert is not looked at
AfterFeeAlert_IgnoresResponse(run, feeAlertResponse) == BeginSpend(run)

AfterFeeAlert(run, feeAlertResponse) ==
    IF ~feeAlertResponse
    THEN Finish(Dispatch(run, updateTransaction(run.unsigned, run.cfg, TRUE,
                                               "transactionCancelled")),
                "returned")
    ELSE BeginSpend(run)

\* mutant: signTx follows checkPin whatever checkPin answered
AfterCheckPin_IgnoresResult(run, isAuthorized) == Goto(run, "signTx")

AfterCheckPin(run, isAuthorized) ==
    IF ~isAuthorized THEN Catch(run) ELSE Goto(run, "signTx")

\* the statements after saveTxMetadata: spend-pending off, the success alert
Succeeded(run) ==
    LET off == Dispatch(run, updateSpendPending(FALSE))
        alerted == IF run.cfg.dismissAlert THEN off
                   ELSE [off EXCEPT !.alerts = Append(@, "transaction_success")]
    IN  Goto(alerted, IF run.cfg.fioRecord = "none" THEN "onDone" ELSE "fioRecord")

SendInit ==
    /\ locale = EN_US_LOCALE
    /\ lastSet = EN_US_LOCALE
    /\ request = Null
    /\ ret = Null
    /\ txDetails = Null
    /\ walletList = Null
    /\ fioScene = Null
    /\ \E cfg \in SendConfigs :
          sendRun = [pc |-> "beforeTransaction", cfg |-> cfg, unsigned |-> "unsigned",
                     transaction |-> "unsigned", calls |-> <<>>, dispatched |-> <<>>,
                     alerts |-> <<>>, errorsShown |-> 0, navigated |-> FALSE,
                     outcome |-> "running"]

BeforeTransaction ==
    /\ sendRun.pc = "beforeTransaction"
    /\ sendRun' =
          IF sendRun.cfg.beforeTransaction = "absent" THEN AfterBeforeTransaction(sendRun)
          ELSE IF sendRun.cfg.beforeTransaction = "resolves"
               THEN AfterBeforeTransaction(Call(sendRun, "beforeTransaction", "", "resolved"))
          ELSE Finish(Call(sendRun, "beforeTransaction", "", "rejected"), "returned")
    /\ UNCHANGED <<intlVars, txDetails, walletList, fioScene>>

FeeAlert ==
    /\ sendRun.pc = "feeAlert"
    /\ \E answer \in {"yes", "no", "rejected"} :
          LET asked == Call(sendRun, "displayFeeAlert", "", answer)
          IN  sendRun' = IF answer = "rejected" THEN Finish(asked, "rejected")
                         ELSE AfterFeeAlert(asked, answer = "yes")
    /\ UNCHANGED <<intlVars, txDetails, walletList, fioScene>>

CheckPin ==
    /\ sendRun.pc = "checkPin"
    /\ \E answer \in {"true", "false", "rejected"} :
          LET checked == Call(sendRun, "checkPin", "pin", answer)
          IN  sendRun' = IF answer = "rejected" THEN Catch(checked)
                         ELSE AfterCheckPin(checked, answer = "true")
    /\ UNCHANGED <<intlVars, txDetails, walletList, fioScene>>

SignTx ==
    /\ sendRun.pc = "signTx"
    /\ \E result \in {"resolved", "rejected"} :
          LET called == Call(sendRun, "signTx", sendRun.unsigned, result)
          IN  sendRun' = IF result = "rejected" THEN Catch(called)
                         ELSE [called EXCEPT !.transaction = "signed", !.pc = "broadcastTx"]
    /\ UNCHANGED <<intlVars, txDetails, walletList, fioScene>>

BroadcastTx ==
    /\ sendRun.pc = "broadcastTx"
    /\ \E result \in {"resolved", "rejected"} :
          LET called == Call(sendRun, "broadcastTx", sendRun.transaction, result)
          IN  sendRun' = IF result = "rejected" THEN Catch(called)
                         ELSE [called EXCEPT !.transaction = "broadcast", !.pc = "saveTx"]
    /\ UNCHANGED <<intlVars, txDetails, walletList, fioScene>>

SaveTx ==
    /\ sendRun.pc = "saveTx"
    /\ \E result \in {"resolved", "rejected"} :
          LET called == Call(sendRun, "saveTx", sendRun.transaction, result)
          IN  sendRun' = IF result = "rejected" THEN Catch(called)
                         ELSE Goto(called, "saveTxMetadata")
    /\ UNCHANGED <<intlVars, txDetails, walletList, fioScene>>

\* the metadata is put together first: spendInfo.spendTargets[0].publicAddress
\* is a TypeError when there is no first target
SaveTxMetadata ==
    /\ sendRun.pc = "saveTxMetadata"
    /\ \/ /\ ~sendRun.cfg.spendTargets
          /\ sendRun' = Catch(sendRun)
       \/ /\ sendRun.cfg.spendTargets
          /\ \E result \in {"resolved", "rejected"} :
                LET called == Call(sendRun, "saveTxMetadata", sendRun.transaction, result)
                IN  sendRun' = IF result = "rejected" THEN Catch(called)
                               ELSE Succeeded(called)
    /\ UNCHANGED <<intlVars, txDetails, walletList, fioScene>>

\* recordSend / checkRecordSendFee inside their own try: a failure is shown
\* with showError and the run goes on
FioRecord ==
    /\ sendRun.pc = "fioRecord"
    /\ \E result \in {"resolved", "rejected"} :
          LET called == Call(sendRun,
                             IF sendRun.cfg.fioRecord = "pendingRequest"
                             THEN "recordSend" ELSE "checkRecordSendFee",
                             sendRun.transaction, result)
          IN  sendRun' = Goto(IF result = "rejected"
                              THEN [called EXCEPT !.errorsShown = @ + 1] ELSE called,
                              "onDone")
    /\ UNCHANGED <<intlVars, txDetails, walletList, fioScene>>

OnDone ==
    /\ sendRun.pc = "onDone"
    /\ sendRun' =
          IF sendRun.cfg.onDone = "absent"
          THEN Finish([sendRun EXCEPT !.navigated = TRUE], "returned")
          ELSE IF sendRun.cfg.onDone = "returns"
               THEN Finish(Call(sendRun, "onDone", sendRun.transaction, "returned"), "returned")
          ELSE Catch(Call(sendRun, "onDone", sendRun.transaction, "threw"))
    /\ UNCHANGED <<intlVars, txDetails, walletList, fioScene>>

SendNext ==
    \/ BeforeTransaction
    \/ FeeAlert
    \/ CheckPin
    \/ SignTx
    \/ BroadcastTx
    \/ SaveTx
    \/ SaveTxMetadata
    \/ FioRecord
    \/ OnDone

SendSpec == SendInit /\ [][SendNext]_vars

\* every awaited call settles and its continuation runs
SendFairSpec == SendSpec /\ WF_vars(SendNext)

\* ------------------------------------------------------ vocabulary of the claims
\* a valid locale descriptor: separators non-empty and different
ValidSeparators(loc) ==
    /\ loc.decimalSeparator # <<>>
    /\ loc.groupingSeparator # <<>>
    /\ loc.decimalSeparator # loc.groupingSeparator

\* separators that cannot be taken for a part of a number: no digit, no '-'
PlainSeparators(loc) ==
    \A sep \in {loc.decimalSeparator, loc.groupingSeparator} :
        \A k \in 1..Len(sep) : sep[k] \notin Digits \cup {"-"}

\* canonical numeric string: digits, optional leading '-', optional single '.'
Canonical(s) == IsUnsignedDecimal(Unsigned(s))

\* a canonical numeric string whose '.', when there is one, is followed by a digit
CanonicalWithFraction(s) == Canonical(s) /\ ~EndsWith(s, <<".">>)

\* the call was made without a toFixed option
NoToFixedOption(options) == IsNull(options) \/ "toFixed" \notin DOMAIN options

\* groups of three characters counted from the right, joined by sep
RECURSIVE GroupsFromRight(_, _)
GroupsFromRight(digits, sep) ==
    IF Len(digits) <= 3 THEN digits
    ELSE GroupsFromRight(SubSeq(digits, 1, Len(digits) - 3), sep)
         \o sep \o SubSeq(digits, Len(digits) - 2, Len(digits))

\* the text before the first '.', and the text after it
IntegerPart(s) == Split(s, <<".">>)[1]

\* number of characters after the first occurrence of sep in s (0 without sep)
FractionLength(s, sep) == IF Includes(s, sep) THEN Len(s) - IndexOf(s, sep) - Len(sep) + 1 ELSE 0

\* ------------------------------------------------------------------------ C1
\* C1 as stated: for every valid locale and every canonical numeric string s,
\* formatToNativeNumber(formatNumber(s)) without a toFixed option is s.
C1_RoundTripEveryCanonical ==
    (/\ ret.op = "formatNumber"
     /\ NoToFixedOption(request.options)
     /\ ValidSeparators(locale)
     /\ Canonical(request.number))
    => formatToNativeNumber(ret.value, locale) = request.number

\* C1 amended: the round trip formatToNativeNumber(formatNumber(s)) = s holds for
\* every locale whose separators are non-empty, different and neither a digit
\* nor '-', and every canonical s whose '.', if any, is followed by a digit.
C1_RoundTrip ==
    (/\ ret.op = "formatNumber"
     /\ NoToFixedOption(request.options)
     /\ ValidSeparators(locale)
     /\ PlainSeparators(locale)
     /\ CanonicalWithFraction(request.number))
    => formatToNativeNumber(ret.value, locale) = request.number

C1_Witness ==
    /\ ret.op = "formatNumber"
    /\ IsNull(request.options)
    /\ locale.decimalSeparator = <<",">>
    /\ locale.groupingSeparator = <<".">>
    /\ request.number = <<"1", "2", "3", "4", ".", "5">>
    /\ ret.value = <<"1", ".", "2", "3", "4", ",", "5">>
    /\ formatToNativeNumber(ret.value, locale) = request.number

\* ------------------------------------------------------------------------ C2
\* C2: with grouping requested the integer digits of the result are the integer
\* digits of the number in groups of 3 from the right joined by the locale's
\* grouping separator (a leading '-' staying in front of them); with noGrouping
\* true the integer part is unchanged; "1234567" gives "1,234,567" under the
\* default locale and "1.234.567" under grouping '.', decimal ','.
C2_IntegerPartGrouped ==
    (/\ ret.op = "formatNumber"
     /\ ValidSeparators(locale)
     /\ PlainSeparators(locale)
     /\ Canonical(request.number))
    => LET integers == IntegerPart(Stringify(request.number, request.options))
           expected == IF NoGroupingTruthy(request.options) THEN integers
                       ELSE Sign(integers)
                            \o GroupsFromRight(Unsigned(integers), locale.groupingSeparator)
       IN  /\ Len(ret.value) >= Len(expected)
           /\ SubSeq(ret.value, 1, Len(expected)) = expected
           /\ \/ Len(ret.value) = Len(expected)
              \/ MatchesAt(ret.value, locale.decimalSeparator, Len(expected) + 1)

\* ------------------------------------------------------------------------ C3
\* C3: for every toFixed option N >= 0 (N = 0 included) and every canonical
\* input, the result of formatNumber has exactly N digits after the locale's
\* decimal separator.
C3_ExactlyNFractionDigits ==
    (/\ ret.op = "formatNumber"
     /\ ~IsNull(request.options)
     /\ "toFixed" \in DOMAIN request.options
     /\ ValidSeparators(locale)
     /\ PlainSeparators(locale)
     /\ Canonical(request.number))
    => FractionLength(ret.value, locale.decimalSeparator) = request.options.toFixed

\* ------------------------------------------------------------------------ C4
\* C4: isValidInput(value) is true exactly when value is the locale's decimal
\* separator or its canonicalisation (trailing '.'/',' normalised, grouping
\* separators removed, decimal separator replaced by '.') parses as a finite
\* number; a value canonicalising to a non-finite one is rejected.
C4_ValidIffFinite ==
    ret.op = "isValidInput"
    => (ret.value <=>
            \/ request.value = locale.decimalSeparator
            \/ NumberClass(Standardize(NormalizeTrailing(request.value, locale), locale))
                 = "finite")

\* ------------------------------------------------------------------------ C5
\* C5: setIntlLocale called with no descriptor (null/undefined) throws, and the
\* current locale is after the call what it was before it.
C5_NullThrowsAndKeepsLocale ==
    [][(ret'.op = "setIntlLocale" /\ IsNull(ret'.arg))
         => (ret'.threw /\ locale' = locale)]_vars

C5_Witness ==
    /\ ret.op = "setIntlLocale"
    /\ IsNull(ret.arg)
    /\ ret.threw
    /\ locale.localeIdentifier = fr_FR
    /\ locale.decimalSeparator = <<",">>

\* ------------------------------------------------------------------------ C6
\* the three properties of a descriptor are present and non-empty
Complete(l) ==
    \A field \in {"localeIdentifier", "decimalSeparator", "groupingSeparator"} :
        field \in DOMAIN l /\ Len(l[field]) > 0

\* the fixed default: identifier "en_US", decimal '.', grouping ','
DefaultLocale ==
    [localeIdentifier |-> <<"e", "n", "_", "U", "S">>,
     decimalSeparator |-> <<".">>,
     groupingSeparator |-> <<",">>]

\* C6: setIntlLocale with a non-null descriptor in which a property is missing
\* or empty does not throw, warns, and leaves the default locale current.
C6_IncompleteFallsBackToDefault ==
    (/\ ret.op \in {"setIntlLocale", "boot"}
     /\ ~IsNull(ret.arg)
     /\ ~Complete(ret.arg))
    => (~ret.threw /\ ret.warned /\ locale = DefaultLocale)

C6_Witness ==
    /\ ret.op = "setIntlLocale"
    /\ ret.arg = [localeIdentifier |-> fr_FR]
    /\ ret.warned
    /\ ~ret.threw
    /\ locale = DefaultLocale

\* ------------------------------------------------------------------------ C7
\* C7: the current locale is the descriptor of the most recent call with a
\* non-null argument when that descriptor is complete and the default when it
\* is not (calls without an argument do not count), and a formatting call
\* returns what that locale's separators give.
C7_LocaleIsLastDescriptor ==
    LET expected == IF Complete(lastSet) THEN lastSet ELSE DefaultLocale
    IN  /\ locale = expected
        /\ ret.op = "formatNumber"
             => ret.value = formatNumber(request.number, request.options, expected)
        /\ ret.op = "formatToNativeNumber"
             => ret.value = formatToNativeNumber(request.value, expected)

C7_Witness ==
    /\ ret.op = "formatNumber"
    /\ lastSet = [localeIdentifier |-> fr_FR, decimalSeparator |-> <<",">>,
                  groupingSeparator |-> <<" ">>]
    /\ request.number = <<"1", "2", "3", "4", ".", "5">>
    /\ IsNull(request.options)
    /\ ret.value = <<"1", " ", "2", "3", "4", ",", "5">>

\* ------------------------------------------------------------------------ C8
\* C8: in every reachable state the current locale is a valid descriptor: the
\* identifier and both separators non-empty, the separators different.
C8_LocaleAlwaysValid ==
    /\ Len(locale.localeIdentifier) > 0
    /\ Len(locale.decimalSeparator) > 0
    /\ Len(locale.groupingSeparator) > 0
    /\ locale.decimalSeparator # locale.groupingSeparator

\* ------------------------------------------------------------------------ C9
FormattingOps ==
    {"formatNumber", "formatNumberInput", "isValidInput", "prettifyNumber",
     "truncateDecimals", "formatToNativeNumber", "formatExpDate", "formatTime"}

\* C9: only setIntlLocale changes the current locale; a call of any other
\* operation leaves the locale and the caller's arguments as they were.
C9_OnlySetterMutates ==
    [][/\ locale' # locale => ret'.op = "setIntlLocale"
       /\ ret'.op \in FormattingOps => (locale' = locale /\ request' = request)]_vars

C9_Witness ==
    /\ ret.op = "formatNumberInput"
    /\ request.input = <<"1", ".", "1">>
    /\ request.options = EmptyObject
    /\ ret.value = <<"1", ",", "1">>
    /\ locale.localeIdentifier = fr_FR

\* ----------------------------------------------------------------------- C10
IsPrefix(p, s) == Len(p) <= Len(s) /\ SubSeq(s, 1, Len(p)) = p

\* C10: for an input holding the locale's decimal separator, truncateDecimals
\* returns the text before the first separator, the separator and the first
\* `precision` characters of everything after it, which is a prefix of the input.
C10_SplitsOnceAndTruncates ==
    (/\ ret.op = "truncateDecimals"
     /\ Includes(request.input, locale.decimalSeparator)
     /\ "precision" \in DOMAIN request
     /\ request.precision >= 0)
    => LET sep == locale.decimalSeparator
           at == IndexOf(request.input, sep)
           before == SubSeq(request.input, 1, at - 1)
           after == SubSeq(request.input, at + Len(sep), Len(request.input))
       IN  /\ ret.value = before \o sep \o SliceTo(after, request.precision)
           /\ IsPrefix(ret.value, request.input)

\* ----------------------------------------------------------------------- C11
\* the allowBlank argument of the call, false when the caller left it out
AllowBlankArg(req) == "allowBlank" \in DOMAIN req /\ req.allowBlank

\* C11: truncateDecimals returns '0' for an empty input when allowBlank is false
\* or left out and '' when allowBlank is true; a non-empty input without the
\* locale's decimal separator comes back unchanged whatever the precision, with
\* no separator added.
C11_BlankAndSeparatorFree ==
    ret.op = "truncateDecimals"
    => /\ request.input = <<>>
          => ret.value = (IF AllowBlankArg(request) THEN <<>> ELSE <<"0">>)
       /\ (request.input # <<>> /\ ~Includes(request.input, locale.decimalSeparator))
          => (ret.value = request.input /\ ~Includes(ret.value, locale.decimalSeparator))

C11_Witness ==
    /\ ret.op = "truncateDecimals"
    /\ request.input = <<>>
    /\ AllowBlankArg(request)
    /\ "precision" \in DOMAIN request /\ request.precision = 2
    /\ ret.value = <<>>

\* ----------------------------------------------------------------------- C12
\* number of '0' characters s starts with
LeadingZeroCount(s) ==
    Cardinality({k \in 1..Len(s) : \A j \in 1..k : s[j] = "0"})

\* C12: prettifyNumber removes every leading '0' and, when what is left starts
\* with the locale's decimal separator, puts exactly one '0' in front of it:
\* "00.5" gives "0.5" and "007" gives "7" under the default locale, and the
\* result never starts with the locale's decimal separator.
C12_LeadingZerosStripped ==
    ret.op = "prettifyNumber"
    => LET rest == SubSeq(request.input, LeadingZeroCount(request.input) + 1,
                          Len(request.input))
       IN  /\ ret.value = (IF StartsWith(rest, locale.decimalSeparator)
                            THEN <<"0">> \o rest ELSE rest)
           /\ ~StartsWith(ret.value, locale.decimalSeparator)
           /\ (locale = EN_US_LOCALE /\ request.input = <<"0", "0", ".", "5">>)
              => ret.value = <<"0", ".", "5">>
           /\ (locale = EN_US_LOCALE /\ request.input = <<"0", "0", "7">>)
              => ret.value = <<"7">>

C12_Witness ==
    /\ ret.op = "prettifyNumber"
    /\ locale = EN_US_LOCALE
    /\ request.input = <<"0", "0", ".", "5">>
    /\ ret.value = <<"0", ".", "5">>

\* ----------------------------------------------------------------------- C13
\* C13: for an input ending in '.' or ',' formatNumberInput returns
\* formatNumber of the input without its last character followed by the
\* locale's decimal separator, whichever of the two was typed: "12," gives
\* "12." under the default locale and "12," under a locale whose decimal
\* separator is ','.
C13_TrailingSeparatorKept ==
    (/\ ret.op = "formatNumberInput"
     /\ request.input # <<>>
     /\ request.input[Len(request.input)] \in {".", ","})
    => /\ ret.value = formatNumber(SubSeq(request.input, 1, Len(request.input) - 1),
                                   Null, locale)
                       \o locale.decimalSeparator
       /\ request.input = <<"1", "2", ",">>
          => ret.value = <<"1", "2">> \o locale.decimalSeparator

C13_Witness ==
    /\ ret.op = "formatNumberInput"
    /\ locale = EN_US_LOCALE
    /\ request.input = <<"1", "2", ",">>
    /\ ret.value = <<"1", "2", ".">>

\* ----------------------------------------------------------------------- C14
\* the text after the first sep of s, empty without sep
FractionPart(s, sep) ==
    IF Includes(s, sep) THEN SubSeq(s, IndexOf(s, sep) + Len(sep), Len(s)) ELSE <<>>

\* C14: for a canonical input whose '.' is followed by k >= 1 digits,
\* formatNumberInput called without a toFixed option returns a string that ends
\* with the locale's decimal separator and exactly those k digits, and called
\* with an explicit toFixed it returns what formatNumber returns for the
\* caller's options, the inferred k overridden.
C14_FractionDigitsKept ==
    (/\ ret.op = "formatNumberInput"
     /\ Canonical(request.input)
     /\ FractionPart(request.input, <<".">>) # <<>>)
    => LET fraction == FractionPart(request.input, <<".">>)
           before == SubSeq(ret.value, 1, Len(ret.value) - Len(fraction)
                                              - Len(locale.decimalSeparator))
       IN  /\ NoToFixedOption(request.options)
              => /\ EndsWith(ret.value, locale.decimalSeparator \o fraction)
                 /\ (ValidSeparators(locale) /\ PlainSeparators(locale))
                    => ~Includes(before, locale.decimalSeparator)
           /\ ~NoToFixedOption(request.options)
              => ret.value = formatNumber(request.input, request.options, locale)

C14_Witness ==
    /\ ret.op = "formatNumberInput"
    /\ IsNull(request.options)
    /\ locale.decimalSeparator = <<",">>
    /\ locale.groupingSeparator = <<".">>
    /\ request.input = <<"-", "1", "2", "3", "4", ".", "5", "0">>
    /\ ret.value = <<"-", "1", ".", "2", "3", "4", ",", "5", "0">>

\* ----------------------------------------------------------------------- C15
IsDigit(c) == c \in Digits

\* the digits of s in their order
DigitsOf(s) == SelectSeq(s, IsDigit)

\* s with a trailing '.' or ',' read as the decimal separator sep
TrailingAsDecimal(s, sep) ==
    IF s # <<>> /\ s[Len(s)] \in {".", ","} THEN SubSeq(s, 1, Len(s) - 1) \o sep ELSE s

\* one pass over v from position i: grouping separators dropped, the first
\* decimal separator written as '.', every other character copied
RECURSIVE NativeText(_, _, _, _)
NativeText(v, i, loc, replaced) ==
    IF i > Len(v) THEN <<>>
    ELSE IF MatchesAt(v, loc.groupingSeparator, i)
         THEN NativeText(v, i + Len(loc.groupingSeparator), loc, replaced)
    ELSE IF ~replaced /\ MatchesAt(v, loc.decimalSeparator, i)
         THEN <<".">> \o NativeText(v, i + Len(loc.decimalSeparator), loc, TRUE)
    ELSE <<v[i]>> \o NativeText(v, i + 1, loc, replaced)

\* C15: under a valid locale formatToNativeNumber only rewrites text: the digits
\* of the result are the digits of the input in the same order, every grouping
\* separator of the input is gone, and the locale's decimal separator has become
\* '.'.
C15_PurelyTextual ==
    (/\ ret.op = "formatToNativeNumber"
     /\ ValidSeparators(locale))
    => LET v == TrailingAsDecimal(request.value, locale.decimalSeparator)
       IN  /\ DigitsOf(ret.value) = DigitsOf(request.value)
           /\ ret.value = NativeText(v, 1, locale, FALSE)
           /\ locale.groupingSeparator # <<".">>
              => ~Includes(ret.value, locale.groupingSeparator)
           /\ Includes(v, locale.decimalSeparator) => Includes(ret.value, <<".">>)

C15_Witness ==
    /\ ret.op = "formatToNativeNumber"
    /\ locale.decimalSeparator = <<",">>
    /\ locale.groupingSeparator = <<".">>
    /\ request.value = <<"1", ".", "2", "3", "4", ",", "5">>
    /\ ret.value = <<"1", "2", "3", "4", ".", "5">>

\* ----------------------------------------------------------------------- C16
\* C16: under a valid locale isValidInput(v) is true exactly when v is the
\* locale's decimal separator alone or formatToNativeNumber(v) converts to a
\* number, so the two never read the same text differently.
C16_ValidIffNativeParses ==
    (/\ ret.op = "isValidInput"
     /\ ValidSeparators(locale))
    => (ret.value <=> (\/ request.value = locale.decimalSeparator
                       \/ NumberClass(formatToNativeNumber(request.value, locale)) # "NaN"))

C16_Witness ==
    /\ ret.op = "isValidInput"
    /\ locale = EN_US_LOCALE
    /\ request.value = <<"1", ",", "2", "3", "4", ".", "5", "6">>
    /\ ret.value = TRUE
    /\ formatToNativeNumber(request.value, locale) = <<"1", "2", "3", "4", ".", "5", "6">>

\* ----------------------------------------------------------------------- C17
\* C17: the result of formatNumber holds the locale's decimal separator only
\* when the number, after the toFixed rounding when one is asked for, has a
\* non-empty fractional part; without fractional digits (a number ending in '.'
\* included) the result is the formatted integer part alone and ends with a
\* digit, not with a separator.
C17_SeparatorOnlyWithFraction ==
    (/\ ret.op = "formatNumber"
     /\ ValidSeparators(locale)
     /\ PlainSeparators(locale)
     /\ Canonical(request.number))
    => LET stringify == Stringify(request.number, request.options)
           fraction == FractionPart(stringify, <<".">>)
       IN  /\ Includes(ret.value, locale.decimalSeparator) <=> fraction # <<>>
           /\ fraction = <<>>
              => /\ ret.value # <<>>
                 /\ ret.value[Len(ret.value)] \in Digits
                 /\ DigitsOf(ret.value) = DigitsOf(stringify)

C17_Witness ==
    /\ ret.op = "formatNumber"
    /\ IsNull(request.options)
    /\ locale = EN_US_LOCALE
    /\ request.number = <<"1", "2", "3", "4", ".">>
    /\ ret.value = <<"1", ",", "2", "3", "4">>

\* ----------------------------------------------------------------------- C18
\* C18: under a valid locale the decimal separator alone is a valid input, and
\* so is every non-empty digit string followed by '.' or by ','.
C18_PartialInputAccepted ==
    (/\ ret.op = "isValidInput"
     /\ ValidSeparators(locale))
    => /\ request.value = locale.decimalSeparator => ret.value = TRUE
       /\ (/\ Len(request.value) >= 2
           /\ AllDigits(SubSeq(request.value, 1, Len(request.value) - 1))
           /\ request.value[Len(request.value)] \in {".", ","})
          => ret.value = TRUE

C18_Witness ==
    /\ ret.op = "isValidInput"
    /\ locale.decimalSeparator = <<".">>
    /\ locale.groupingSeparator = <<" ">>
    /\ request.value = <<"1", ",">>
    /\ ret.value = TRUE

\* ----------------------------------------------------------------------- C19
NumericOps ==
    {"formatNumber", "formatNumberInput", "isValidInput", "prettifyNumber",
     "truncateDecimals", "formatToNativeNumber"}

C20_SaveStoresNumberZeroOrPrevious ==
    ret.op = "onSaveTxDetails"
    => LET amountFiat == txDetails.state.amountFiat
           number == parseFloat(ReplaceFirst(amountFiat, <<",">>, <<".">>))
           stored == ret.dispatched.amountFiat
       IN  /\ txDetails.metadata = ret.dispatched
           /\ amountFiat = <<>> => stored = Zero
           /\ (amountFiat # <<>> /\ number # NaN) => stored = number
           /\ (amountFiat # <<>> /\ number = NaN)
              => stored = (IF IsNull(ret.previous) THEN Zero ELSE ret.previous.amountFiat)

\* ----------------------------------------------------------------------- C21
\* C21: in the result of formatNumber on a canonical numeric string with
\* grouping enabled every grouping separator stands between two digits: it is
\* not the first character, not the last, and does not follow a leading '-'
\* ("-123" gives "-123", "-123456" gives "-123,456").
C21_SeparatorBetweenDigits ==
    (/\ ret.op = "formatNumber"
     /\ ~NoGroupingTruthy(request.options)
     /\ ValidSeparators(locale)
     /\ PlainSeparators(locale)
     /\ Canonical(request.number))
    => \A k \in 1..Len(ret.value) :
          MatchesAt(ret.value, locale.groupingSeparator, k)
          => /\ k > 1
             /\ k + Len(locale.groupingSeparator) <= Len(ret.value)
             /\ ret.value[k - 1] \in Digits
             /\ ret.value[k + Len(locale.groupingSeparator)] \in Digits

\* ----------------------------------------------------------------------- C22
\* the input without the '.' or ',' it ends with
WithoutTrailingSeparator(s) ==
    IF s # <<>> /\ s[Len(s)] \in {".", ","} THEN SubSeq(s, 1, Len(s) - 1) ELSE s

\* C22: formatNumberInput honours the caller's options for every input: called
\* with noGrouping true on a number typed without grouping, also one ending in
\* '.' or ',', its result holds no grouping separator ("1234." gives "1234."
\* under the default locale).
C22_InputHonoursNoGrouping ==
    (/\ ret.op = "formatNumberInput"
     /\ NoGroupingTruthy(request.options)
     /\ ValidSeparators(locale)
     /\ PlainSeparators(locale)
     /\ Canonical(WithoutTrailingSeparator(request.input)))
    => ~Includes(ret.value, locale.groupingSeparator)

\* ------------------------------------------- claims about signBroadcastAndSave
WalletSteps == {"checkPin", "signTx", "broadcastTx", "saveTx", "saveTxMetadata"}

\* the step failed: the call rejected, or checkPin answered false
StepFailed(c) == c.call \in WalletSteps /\ c.result \in {"rejected", "false"}

Follows(calls, i, name, result) ==
    /\ i > 1
    /\ calls[i - 1].call = name
    /\ calls[i - 1].result = result

HasCall(run, name) == \E i \in 1..Len(run.calls) : run.calls[i].call = name

HasCallWith(run, name, result) ==
    \E i \in 1..Len(run.calls) : run.calls[i].call = name /\ run.calls[i].result = result

PendingDispatches(run) ==
    SelectSeq(run.dispatched, LAMBDA a : a.type = updateSpendPending(TRUE).type)

\* the spend-pending flag as the dispatched actions leave it
SpendPending(run) ==
    LET p == PendingDispatches(run) IN p # <<>> /\ p[Len(p)].pending

\* C23: the wallet calls of a run are strictly ordered: with authRequired 'pin'
\* signTx comes only after checkPin answered true, broadcastTx only after signTx
\* resolved and with the signed transaction, saveTx only after broadcastTx
\* resolved, saveTxMetadata only after saveTx resolved, and no wallet call
\* follows a failed one.
C23_WalletCallsOrdered ==
    \A i \in 1..Len(sendRun.calls) :
        LET calls == sendRun.calls
            c == calls[i]
        IN  /\ c.call = "signTx" =>
                 IF sendRun.cfg.authRequired = "pin"
                 THEN Follows(calls, i, "checkPin", "true")
                 ELSE ~HasCall(sendRun, "checkPin")
            /\ c.call = "broadcastTx" =>
                 Follows(calls, i, "signTx", "resolved") /\ c.arg = "signed"
            /\ c.call = "saveTx" => Follows(calls, i, "broadcastTx", "resolved")
            /\ c.call = "saveTxMetadata" => Follows(calls, i, "saveTx", "resolved")
            /\ StepFailed(c) =>
                 \A j \in (i + 1)..Len(calls) : calls[j].call \notin WalletSteps

C23_Witness ==
    /\ sendRun.pc = "done"
    /\ sendRun.cfg.authRequired = "pin"
    /\ HasCallWith(sendRun, "checkPin", "true")
    /\ HasCallWith(sendRun, "saveTxMetadata", "resolved")

FeeAlertDeclined(run) == HasCallWith(run, "displayFeeAlert", "no")

\* C24: a run where beforeTransaction rejects, where spendInfo is absent, or
\* where the fee alert is declined never calls signTx or broadcastTx and never
\* dispatches updateSpendPending(true); the declined run dispatches
\* updateTransaction with the unsigned transaction and 'transactionCancelled'.
C24_AbortedRunsNeverSpend ==
    /\ (\/ sendRun.cfg.beforeTransaction = "rejects"
        \/ ~sendRun.cfg.spendInfo
        \/ FeeAlertDeclined(sendRun))
       => /\ ~HasCall(sendRun, "signTx")
          /\ ~HasCall(sendRun, "broadcastTx")
          /\ PendingDispatches(sendRun) = <<>>
    /\ FeeAlertDeclined(sendRun)
       => sendRun.dispatched =
            <<updateTransaction("unsigned", sendRun.cfg, TRUE, "transactionCancelled")>>

C24_Witness ==
    /\ sendRun.pc = "done"
    /\ FeeAlertDeclined(sendRun)
    /\ sendRun.cfg.beforeTransaction = "resolves"
    /\ sendRun.cfg.spendInfo

\* C25: once updateSpendPending(true) is dispatched, updateSpendPending(false)
\* is dispatched before the run ends, on success and after a failure of any
\* wallet step; a completed run never leaves the flag true.
C25_PendingEventuallyCleared ==
    /\ SpendPending(sendRun) ~> (sendRun.pc = "done" /\ ~SpendPending(sendRun))
    /\ [](sendRun.pc = "done" => ~SpendPending(sendRun))

C25_Witness ==
    /\ sendRun.pc = "done"
    /\ HasCallWith(sendRun, "broadcastTx", "rejected")
    /\ PendingDispatches(sendRun) = <<updateSpendPending(TRUE), updateSpendPending(FALSE)>>

\* C26: when broadcastTx resolved, no transaction-failure alert is shown in
\* that run, whatever saveTx, saveTxMetadata, FIO recording or onDone do.
C26_NoFailureAlertAfterBroadcast ==
    HasCallWith(sendRun, "broadcastTx", "resolved")
    => \A i \in 1..Len(sendRun.alerts) : sendRun.alerts[i] # "transaction_failure"

\* ------------------------------------------------ WalletList (WalletList.ui.js)
\* the most animation-completion callbacks outstanding at one time
MaxAnimations == 2

\* props.wallets: wallet id to its archived flag
Wallets == [w1 |-> FALSE, w2 |-> TRUE]

WalletIds == {"w1", "w2"}

RowOptions == {"sort", "rename", "delete"}

\* setState({sortableListExists: true}) and, in its callback, the start of the
\* animation whose completion callback is then outstanding
enableSorting(state) ==
    [state EXCEPT !.sortableListExists = TRUE, !.pending.enable = @ + 1]

\* setState({fullListExists: true}) and the start of the reverse animation
disableSorting(state) ==
    [state EXCEPT !.fullListExists = TRUE, !.pending.disable = @ + 1]

executeWalletRowOption(state, walletId, option) ==
    IF option # "sort"
    THEN [state EXCEPT !.walletRowOption =
              [walletId |-> walletId, option |-> option, archived |-> Wallets[walletId]]]
    ELSE IF state.sortableMode THEN disableSorting(state)
    ELSE enableSorting(state)

Outstanding(state) == state.pending.enable + state.pending.disable

WalletInit ==
    /\ locale = EN_US_LOCALE
    /\ lastSet = EN_US_LOCALE
    /\ request = Null
    /\ ret = Null
    /\ txDetails = Null
    /\ sendRun = Null
    /\ fioScene = Null
    /\ walletList = [sortableMode |-> FALSE, sortableListExists |-> FALSE,
                     fullListExists |-> TRUE, isWalletFiatBalanceVisible |-> FALSE,
                     pending |-> [enable |-> 0, disable |-> 0],
                     walletRowOption |-> Null]

\* a row's menu; rows are rendered by whichever list exists
ExecuteWalletRowOption ==
    /\ walletList.sortableListExists \/ walletList.fullListExists
    /\ \E walletId \in WalletIds, option \in RowOptions :
          /\ option = "sort" => Outstanding(walletList) < MaxAnimations
          /\ walletList' = executeWalletRowOption(walletList, walletId, option)
    /\ UNCHANGED <<intlVars, txDetails, sendRun, fioScene>>

\* the Done button, rendered while the sortable list exists
DonePressed ==
    /\ walletList.sortableListExists
    /\ Outstanding(walletList) < MaxAnimations
    /\ walletList' = disableSorting(walletList)
    /\ UNCHANGED <<intlVars, txDetails, sendRun, fioScene>>

OnFiatSwitchToggle ==
    /\ walletList' = [walletList EXCEPT !.isWalletFiatBalanceVisible = ~@]
    /\ UNCHANGED <<intlVars, txDetails, sendRun, fioScene>>

\* the callback given to start() in enableSorting; it does not look at
\* whether the animation finished or was stopped
EnableSortingAnimationEnds ==
    /\ walletList.pending.enable > 0
    /\ walletList' = [walletList EXCEPT !.fullListExists = FALSE, !.pending.enable = @ - 1]
    /\ UNCHANGED <<intlVars, txDetails, sendRun, fioScene>>

\* the callback given to start() in disableSorting
DisableSortingAnimationEnds ==
    /\ walletList.pending.disable > 0
    /\ walletList' = [walletList EXCEPT !.sortableListExists = FALSE, !.pending.disable = @ - 1]
    /\ UNCHANGED <<intlVars, txDetails, sendRun, fioScene>>

WalletNext ==
    \/ ExecuteWalletRowOption
    \/ DonePressed
    \/ OnFiatSwitchToggle
    \/ EnableSortingAnimationEnds
    \/ DisableSortingAnimationEnds

WalletSpec == WalletInit /\ [][WalletNext]_vars

\* C27: after any interleaving of enableSorting and disableSorting with their
\* animation-completion callbacks at least one of the two lists exists.
C27_SomeListExists ==
    walletList.fullListExists \/ walletList.sortableListExists

\* ---------------------------------- FioDomainSettingsScene (part_001:193-396)
\* the most calls of one kind awaiting their answer at one time
MaxInFlight == 2

\* props.denominationMultiplier
DenominationMultiplier == 2

\* what getRenewalFee resolves with, in native units; a number is kept in a
\* record so that it can be told from null
RenewalFees == {[value |-> 0], [value |-> 4]}

\* what fioWallet.getBalance resolves with, in native units
NativeBalances == {0, 2, 6}

\* native units to display units; the amounts above are whole multiples of
\* the multiplier, so the quotient has no decimals to truncate
formatFio(val) == val \div DenominationMultiplier

Handled(state, handler, errorShown, renewFioName) ==
    [state EXCEPT !.last = [handler |-> handler, errorShown |-> errorShown,
                            renewFioName |-> renewFioName]]

\* setBalance up to its await
setBalance(state) ==
    IF state.fioWallet
    THEN [state EXCEPT !.balanceCalls = @ + 1]
    ELSE [state EXCEPT !.last.errorShown = "fio_wallet_missing_for_fio_domain"]

\* setFee up to its await
setFee(state) ==
    IF state.fioWallet
    THEN [state EXCEPT !.feeLoading = TRUE, !.feeCalls = @ + 1]
    ELSE state

\* setFee after getRenewalFee resolved with renewalFee
setFeeResolved(state, renewalFee) ==
    [state EXCEPT !.renewalFee = renewalFee,
                  !.displayFee = IF renewalFee.value # 0 THEN formatFio(renewalFee.value) ELSE 0,
                  !.showRenew = renewalFee.value # 0,
                  !.feeLoading = FALSE,
                  !.feeCalls = @ - 1]

\* setFee after getRenewalFee rejected with the error e
setFeeRejected(state, message) ==
    [state EXCEPT !.renewError = message,
                  !.renewalFee = Null,
                  !.displayFee = 0,
                  !.showRenew = FALSE,
                  !.feeLoading = FALSE,
                  !.feeCalls = @ - 1,
                  !.last.errorShown = message]

\* mutant: the stored fee is not tested before the renewal
onConfirm_NoFeeCheck(state) ==
    IF ~state.isConnected
    THEN Handled(state, "onConfirm", "fio_network_alert_text", FALSE)
    ELSE IF ~state.fioWallet
    THEN Handled([state EXCEPT !.renewError = "fio_wallet_missing_for_fio_domain"],
                 "onConfirm", "fio_wallet_missing_for_fio_domain", FALSE)
    ELSE Handled([state EXCEPT !.renewLoading = TRUE, !.renewCalls = @ + 1],
                 "onConfirm", "", TRUE)

\* onConfirm up to its await
onConfirm(state) ==
    IF ~state.isConnected
    THEN Handled(state, "onConfirm", "fio_network_alert_text", FALSE)
    ELSE IF ~state.fioWallet
    THEN Handled([state EXCEPT !.renewError = "fio_wallet_missing_for_fio_domain"],
                 "onConfirm", "fio_wallet_missing_for_fio_domain", FALSE)
    ELSE IF state.renewalFee = Null
    THEN Handled([state EXCEPT !.renewError = "fio_get_fee_err_msg"],
                 "onConfirm", "fio_get_fee_err_msg", FALSE)
    ELSE Handled([state EXCEPT !.renewLoading = TRUE, !.renewCalls = @ + 1],
                 "onConfirm", "", TRUE)

\* renderFeeAndBalance: what the fee block shows
renderFeeAndBalance(state) ==
    IF ~state.feeLoading /\ state.renewError # "" THEN "error"
    ELSE IF state.feeLoading \/ ~state.showRenew THEN "nothing"
    ELSE "feeAndBalance"

FioInit ==
    /\ locale = EN_US_LOCALE
    /\ lastSet = EN_US_LOCALE
    /\ request = Null
    /\ ret = Null
    /\ txDetails = Null
    /\ sendRun = Null
    /\ walletList = Null
    /\ \E fioWallet \in BOOLEAN, isConnected \in BOOLEAN :
          fioScene = [showRenew |-> FALSE, renewError |-> "", feeLoading |-> FALSE,
                      renewalFee |-> Null, renewLoading |-> FALSE, displayFee |-> 0,
                      balance |-> 0, fioWallet |-> fioWallet, isConnected |-> isConnected,
                      feeCalls |-> 0, balanceCalls |-> 0, renewCalls |-> 0,
                      last |-> [handler |-> "none", errorShown |-> "",
                                renewFioName |-> FALSE]]

\* the Renew button: rendered while showRenew is false, disabled while the
\* fee is loading
OnRenewPress ==
    /\ ~fioScene.showRenew
    /\ ~fioScene.feeLoading
    /\ fioScene.balanceCalls < MaxInFlight
    /\ fioScene' = setFee(setBalance(Handled(fioScene, "onRenewPress", "", FALSE)))
    /\ UNCHANGED <<intlVars, txDetails, sendRun, walletList>>

GetRenewalFeeSettles ==
    /\ fioScene.feeCalls > 0
    /\ \/ \E renewalFee \in RenewalFees :
             fioScene' = setFeeResolved(Handled(fioScene, "setFee", "", FALSE), renewalFee)
       \/ fioScene' = setFeeRejected(Handled(fioScene, "setFee", "", FALSE),
                                     "getRenewalFee failed")
    /\ UNCHANGED <<intlVars, txDetails, sendRun, walletList>>

\* a rejection of getBalance is not caught by setBalance or its caller
GetBalanceSettles ==
    /\ fioScene.balanceCalls > 0
    /\ \/ \E balance \in NativeBalances :
             fioScene' = [Handled(fioScene, "setBalance", "", FALSE)
                             EXCEPT !.balance = formatFio(balance), !.balanceCalls = @ - 1]
       \/ fioScene' = [Handled(fioScene, "setBalance", "", FALSE)
                          EXCEPT !.balanceCalls = @ - 1]
    /\ UNCHANGED <<intlVars, txDetails, sendRun, walletList>>

\* the handler of the slider, taken in every state of the component
OnConfirm ==
    /\ fioScene.renewCalls < MaxInFlight
    /\ fioScene' = onConfirm(fioScene)
    /\ UNCHANGED <<intlVars, txDetails, sendRun, walletList>>

\* onConfirm after its await: the rest of the try block or the catch, then
\* setState({renewLoading: false})
RenewFioNameSettles ==
    /\ fioScene.renewCalls > 0
    /\ \/ fioScene' = [Handled(fioScene, "renewFioName", "", FALSE)
                          EXCEPT !.showRenew = FALSE, !.renewLoading = FALSE,
                                 !.renewCalls = @ - 1]
       \/ fioScene' = [Handled(fioScene, "renewFioName", "renewFioName failed", FALSE)
                          EXCEPT !.renewLoading = FALSE, !.renewCalls = @ - 1]
    /\ UNCHANGED <<intlVars, txDetails, sendRun, walletList>>

\* props.isConnected follows the network
ConnectivityChanges ==
    /\ fioScene' = [Handled(fioScene, "props", "", FALSE) EXCEPT !.isConnected = ~@]
    /\ UNCHANGED <<intlVars, txDetails, sendRun, walletList>>

FioNext ==
    \/ OnRenewPress
    \/ GetRenewalFeeSettles
    \/ GetBalanceSettles
    \/ OnConfirm
    \/ RenewFioNameSettles
    \/ ConnectivityChanges

FioSpec == FioInit /\ [][FioNext]_vars

\* C28: once setFee has completed with a non-zero renewal fee (showRenew true,
\* feeLoading false), renewError is empty, so the fee and balance are shown
\* and not an error left over from an earlier attempt.
C28_NoStaleRenewError ==
    (/\ fioScene.last.handler = "setFee"
     /\ fioScene.showRenew
     /\ ~fioScene.feeLoading)
    => /\ fioScene.renewError = ""
       /\ renderFeeAndBalance(fioScene) = "feeAndBalance"

\* C29: onConfirm calls renewFioName only when isConnected is true, fioWallet
\* is present and the stored renewalFee is not null; in each of the three
\* other cases it shows an error and starts no renewal; when a renewal has
\* settled, with success or failure, renewLoading is false.
C29_RenewalGuarded ==
    /\ fioScene.last.handler = "onConfirm"
       => /\ fioScene.last.renewFioName
             <=> (fioScene.isConnected /\ fioScene.fioWallet /\ fioScene.renewalFee # Null)
          /\ ~fioScene.isConnected
             => fioScene.last.errorShown = "fio_network_alert_text"
          /\ (fioScene.isConnected /\ ~fioScene.fioWallet)
             => fioScene.last.errorShown = "fio_wallet_missing_for_fio_domain"
          /\ (fioScene.isConnected /\ fioScene.fioWallet /\ fioScene.renewalFee = Null)
             => fioScene.last.errorShown = "fio_get_fee_err_msg"
          /\ fioScene.last.errorShown # "" => ~fioScene.last.renewFioName
    /\ fioScene.last.handler = "renewFioName" => ~fioScene.renewLoading

C29_Witness ==
    /\ fioScene.last.handler = "onConfirm"
    /\ fioScene.isConnected
    /\ fioScene.fioWallet
    /\ fioScene.renewalFee = Null
    /\ fioScene.last.errorShown = "fio_get_fee_err_msg"
    /\ ~fioScene.last.renewFioName

====
